---- MODULE Spec2Model ----
(***************************************************************************)
(* The sight-backend HTTP service (app.py), its face matcher               *)
(* (face_matcher.py) and its forensics client (image_detector.py), as one  *)
(* state machine.  One request (or one command-line run of                 *)
(* image_detector.main) is served at a time; the external calls            *)
(* (DeepFace.extract_faces, DeepFace.find, cv2.imwrite, FileStorage.save,  *)
(* the scoring endpoint) are inputs whose outcome is chosen                *)
(* nondeterministically at the step that makes the call.                   *)
(*                                                                         *)
(* Distances and thresholds are counted in quarters: 0.25 is 1, 0.5 is 2.  *)
(* Paths and file names are sequences of tokens ("database", "/", "alice", *)
(* ".", "jpg"), so that basename and split are computed, not assumed.      *)
(***************************************************************************)
EXTENDS Integers, Sequences, FiniteSets, TLC

\* ------------------------------------------------------------ bounds

\* Most faces DeepFace.extract_faces returns for one image.
MaxFaces == 2
\* Largest distance (in quarters) a row of DeepFace.find's frame carries.
MaxDist == 2
\* Most rows of the frame DeepFace.find returns for one probe.
MaxRows == 2
\* A new request or run starts only while at most this many leaked temp
\* files lie in the temp directory.
MaxLeaked == 0

\* ------------------------------------------------------------ values

\* Python's None, and "no response yet".
None == [tag |-> "None"]
NoResponse == [status |-> 0, body |-> None]
\* A form field the client did not send.
NoField == "<absent>"

Endpoints == {"/detect", "/face/detect", "/face/search", "/face/detect-and-search"}
SearchEndpoints == {"/face/search", "/face/detect-and-search"}

\* What a client may send.  has_image: the multipart field `image` is
\* present; filename "" is an upload with no file selected.
Requests ==
    [ep : Endpoints,
     has_image : BOOLEAN,
     filename : {"", "probe.jpg"},
     content_type : {"image/jpeg", "text/plain"},
     detector : {NoField, "opencv"},
     model : {NoField},
     threshold : {NoField, "0.25", "abc"},
     database_path : {NoField, "nowhere/", "notes.txt"}]

\* request.form.get(key, default)
FormGet(field, default) == IF field = NoField THEN default ELSE field

\* float(s): the strings float() accepts here, and their value in quarters.
\* Any other string raises ValueError.
IsFloat(s) == s \in {"0.25", "0.5", "0.75"}
Float(s) == CASE s = "0.25" -> 1 [] s = "0.5" -> 2 [] s = "0.75" -> 3

\* The file system outside the temp directory: FaceMatcher.__init__ creates
\* the default gallery directory; notes.txt is a regular file.
Directories == {"database/"}
RegularFiles == {"notes.txt"}
PathExists(p) == p \in Directories \cup RegularFiles
IsDir(p) == p \in Directories

\* image_detector.py defines these names at module level and no others.
ImageDetectorNames == {"ImageDetector", "main"}

\* app.py: `from image_detector import detect_tampering` raises ImportError
\* unless the module defines that name, and the flag records the outcome.
TAMPERING_DETECTION_AVAILABLE == "detect_tampering" \in ImageDetectorNames

VARIABLES
    FACE_MATCHING_AVAILABLE, \* app.py's flag: deepface could be imported
    pc,            \* where the request or run stands
    request,       \* the request being served, or None
    fs,            \* names of the files in the temp directory
    fs0,           \* the temp directory as the request or run found it
    tmp_path,      \* the route's upload temp file (0: none)
    response,      \* the HTTP response, or NoResponse
    calls,         \* external calls made for this request or run, in order
    args,          \* arguments the route passed to the FaceMatcher method
    faces,         \* detect_faces, search_faces: the extracted faces
    idx,           \* search_faces: enumerate's index of the current face
    face_path,     \* search_faces: the probe temp file (0: none)
    results,       \* search_faces: the records appended so far
    closest,       \* per face processed: the closest candidate find returned
    result,        \* what the FaceMatcher method or analyze_image returned
    image_source,  \* analyze_image's argument
    step           \* analyze_image: how many checks have run

vars == <<FACE_MATCHING_AVAILABLE, pc, request, fs, fs0, tmp_path, response, calls,
          args, faces, idx, face_path, results, closest, result, image_source,
          step>>

matcherVars == <<args, faces, idx, face_path, results, closest>>
analyzeVars == <<image_source, step>>

\* tempfile.NamedTemporaryFile(delete=False): a name no file of the temp
\* directory has.
FreshName(files) == CHOOSE n \in 1..(Cardinality(files) + 1) : n \notin files

Call(fn, arg, out) == [fn |-> fn, arg |-> arg, out |-> out]

Init ==
    /\ FACE_MATCHING_AVAILABLE \in BOOLEAN
    /\ pc = "idle"
    /\ request = None
    /\ fs = {}
    /\ fs0 = {}
    /\ tmp_path = 0
    /\ response = NoResponse
    /\ calls = <<>>
    /\ args = None
    /\ faces = <<>>
    /\ idx = 0
    /\ face_path = 0
    /\ results = <<>>
    /\ closest = <<>>
    /\ result = None
    /\ image_source = None
    /\ step = 0

\* ------------------------------------------------------------ app.py

\* return jsonify(body), status
Respond(status, body) ==
    /\ response' = [status |-> status, body |-> body]
    /\ pc' = "done"

\* 'image' not in request.files
NoImageField(r) == ~r.has_image

\* The empty-filename check left out.
NoFileSelectedNever(r) == FALSE

\* file.filename == ''
NoFileSelected(r) == r.filename = ""

\* The part every POST route shares once its subsystem is available: the
\* checks of the upload, the route's form fields, and the temp file.
\* `form_ok`: the route's form fields parse; `save_ok`: file.save succeeds;
\* `next_pc`: where the route's call of its subsystem starts.
RouteBody(r, form_ok, save_ok, next_pc, call_args) ==
    IF NoImageField(r)
    THEN /\ Respond(400, [error |-> "No image file provided"])
         /\ UNCHANGED <<fs, tmp_path, calls, args>>
    ELSE IF NoFileSelected(r)
    THEN /\ Respond(400, [error |-> "No file selected"])
         /\ UNCHANGED <<fs, tmp_path, calls, args>>
    ELSE IF ~form_ok
    THEN /\ Respond(500, [error |-> "could not convert string to float"])
         /\ UNCHANGED <<fs, tmp_path, calls, args>>
    ELSE LET name == FreshName(fs) IN
         IF ~save_ok
         THEN \* file.save raises inside the with block: the file was
              \* created with delete=False, tmp_path is never bound and
              \* the outer handler answers.
              /\ fs' = fs \cup {name}
              /\ calls' = Append(calls, Call("file.save", [path |-> name], "raise"))
              /\ Respond(500, [error |-> "save failed"])
              /\ UNCHANGED <<tmp_path, args>>
         ELSE /\ fs' = fs \cup {name}
              /\ tmp_path' = name
              /\ calls' = Append(calls, Call("file.save", [path |-> name], "ok"))
              /\ args' = call_args
              /\ pc' = next_pc
              /\ UNCHANGED response

Accept(r, ep) ==
    /\ pc = "idle"
    /\ Cardinality(fs) <= MaxLeaked
    /\ r.ep = ep
    /\ request' = r
    /\ fs0' = fs

\* POST /detect
detect_tampering_endpoint(r, save_ok) ==
    /\ Accept(r, "/detect")
    /\ IF ~TAMPERING_DETECTION_AVAILABLE
       THEN /\ Respond(503, [error |-> "Tampering detection not available"])
            /\ UNCHANGED <<fs, tmp_path, calls, args, image_source>>
       ELSE /\ RouteBody(r, TRUE, save_ok, "analyze", None)
            /\ image_source' = IF pc' = "analyze" THEN [path |-> tmp_path'] ELSE None
    /\ UNCHANGED <<FACE_MATCHING_AVAILABLE, faces, idx, face_path, results,
                   closest, result, step>>

\* POST /face/detect
detect_faces_route(r, save_ok) ==
    /\ Accept(r, "/face/detect")
    /\ IF ~FACE_MATCHING_AVAILABLE
       THEN /\ Respond(503, [error |-> "Face detection not available"])
            /\ UNCHANGED <<fs, tmp_path, calls, args>>
       ELSE RouteBody(r, TRUE, save_ok, "detect_faces",
                      [detector_backend |-> FormGet(r.detector, "retinaface")])
    /\ UNCHANGED <<FACE_MATCHING_AVAILABLE, faces, idx, face_path, results,
                   closest, result, image_source, step>>

\* The arguments /face/search and /face/detect-and-search pass on.
SearchArgs(r) ==
    [database_path |-> FormGet(r.database_path, "database/"),
     model_name |-> FormGet(r.model, "ArcFace"),
     detector_backend |-> FormGet(r.detector, "retinaface"),
     threshold |-> IF IsFloat(FormGet(r.threshold, "0.5"))
                   THEN Float(FormGet(r.threshold, "0.5")) ELSE 0]

\* POST /face/search
search_faces_route(r, save_ok) ==
    /\ Accept(r, "/face/search")
    /\ IF ~FACE_MATCHING_AVAILABLE
       THEN /\ Respond(503, [error |-> "Face matching not available"])
            /\ UNCHANGED <<fs, tmp_path, calls, args>>
       ELSE RouteBody(r, IsFloat(FormGet(r.threshold, "0.5")), save_ok,
                      "search_faces", SearchArgs(r))
    /\ UNCHANGED <<FACE_MATCHING_AVAILABLE, faces, idx, face_path, results,
                   closest, result, image_source, step>>

\* A detect_and_search that does not hand its threshold on, so that
\* search_faces runs with its default of 0.5.
detect_and_search_default_threshold(a) ==
    [database_path |-> a.database_path,
     model_name |-> a.model_name,
     detector_backend |-> a.detector_backend,
     threshold |-> 2]

\* FaceMatcher.detect_and_search: the arguments it calls search_faces with,
\* given its own.
detect_and_search(a) ==
    [database_path |-> a.database_path,
     model_name |-> a.model_name,
     detector_backend |-> a.detector_backend,
     threshold |-> a.threshold]

\* POST /face/detect-and-search; the route reads the same form fields with
\* the same defaults as /face/search and calls detect_and_search.
detect_and_search_faces(r, save_ok) ==
    /\ Accept(r, "/face/detect-and-search")
    /\ IF ~FACE_MATCHING_AVAILABLE
       THEN /\ Respond(503, [error |-> "Face matching not available"])
            /\ UNCHANGED <<fs, tmp_path, calls, args>>
       ELSE RouteBody(r, IsFloat(FormGet(r.threshold, "0.5")), save_ok,
                      "search_faces", detect_and_search(SearchArgs(r)))
    /\ UNCHANGED <<FACE_MATCHING_AVAILABLE, faces, idx, face_path, results,
                   closest, result, image_source, step>>

\* ------------------------------------------------------ face_matcher.py

\* DeepFace.extract_faces(..., enforce_detection=False): it raises, or it
\* returns the face crops in extraction order (crop i is the i-th face).
ExtractOutcomes ==
    {[raises |-> TRUE, n |-> 0]} \cup {[raises |-> FALSE, n |-> k] : k \in 0..MaxFaces}
Crops(n) == [i \in 1..n |-> i]

\* The base64 JPEG data URI of a face crop.
DataUri(crop) == [mime |-> "data:image/jpeg;base64", crop |-> crop]

\* detect_faces' record of the face crop at enumerate's index i.
DetectedFace(i, crop) ==
    [face_number |-> i + 1, image_base64 |-> DataUri(crop)]

\* A return that takes an image without faces for a failure, as
\* enforce_detection would.
DetectSuccessNeedsFace(detected) ==
    IF Len(detected) = 0
    THEN [success |-> FALSE, error |-> "Face could not be detected",
          faces_detected |-> 0, faces |-> <<>>]
    ELSE [success |-> TRUE, faces_detected |-> Len(detected), faces |-> detected]

\* detect_faces' return after the loop.
DetectSuccess(detected) ==
    [success |-> TRUE, faces_detected |-> Len(detected), faces |-> detected]

\* detect_faces' handler: what it returns for exception `e`.
DetectFailure(e) ==
    [success |-> FALSE, error |-> e, faces_detected |-> 0, faces |-> <<>>]

\* FaceMatcher.detect_faces, on the path the route saved.
FaceMatcher_detect_faces(out) ==
    /\ pc = "detect_faces"
    /\ calls' = Append(calls, Call("extract_faces",
                    [img_path |-> tmp_path,
                     detector_backend |-> args.detector_backend,
                     enforce_detection |-> FALSE],
                    IF out.raises THEN "raise" ELSE "ok"))
    /\ faces' = IF out.raises THEN faces ELSE Crops(out.n)
    /\ result' = IF out.raises
                 THEN DetectFailure("extract_faces failed")
                 ELSE DetectSuccess([i \in 1..out.n |->
                                        DetectedFace(i - 1, Crops(out.n)[i])])
    /\ pc' = "respond"
    /\ UNCHANGED <<FACE_MATCHING_AVAILABLE, request, fs, fs0, tmp_path, response,
                   args, idx, face_path, results, closest, analyzeVars>>

\* The files of the gallery, as DeepFace.find names them in `identity`.
Identities ==
    {<<"database", "/", "alice", ".", "jpg">>,
     <<"database", "/", "bob", ".", "smith", ".", "png">>}

\* One row of the frame DeepFace.find returns, and the frames: rows in
\* ascending order of distance, as the library sorts them.
Rows == [identity : Identities, distance : 0..MaxDist]
Frames ==
    {f \in UNION {[1..k -> Rows] : k \in 0..MaxRows} :
        \A i \in 1..(Len(f) - 1) : f[i].distance <= f[i + 1].distance}
\* DeepFace.find returns a list of frames, one per face found in the probe:
\* none, or the one of the probe's face.  Or it raises.
FindOutcomes ==
    {[raises |-> TRUE, frames |-> <<>>]}
    \cup {[raises |-> FALSE, frames |-> fr] : fr \in {<<>>} \cup {<<f>> : f \in Frames}}

\* os.path.basename(p)
Basename(p) ==
    LET slashes == {i \in 1..Len(p) : p[i] = "/"}
        last == IF slashes = {} THEN 0
                ELSE CHOOSE i \in slashes : \A j \in slashes : j <= i
    IN SubSeq(p, last + 1, Len(p))

\* s.split('.')[0]
SplitDotFirst(s) ==
    LET dots == {i \in 1..Len(s) : s[i] = "."}
        first == IF dots = {} THEN Len(s) + 1
                 ELSE CHOOSE i \in dots : \A j \in dots : i <= j
    IN SubSeq(s, 1, first - 1)

\* A strict comparison in place of <=, which drops the boundary d == t.
WithinThresholdStrict(distance, threshold) == distance < threshold

\* best['distance'] <= threshold
WithinThreshold(distance, threshold) == distance <= threshold

\* The existence test alone, without isdir.
GalleryPresentExistsOnly(database_path) == PathExists(database_path)

\* os.path.exists(database_path) and os.path.isdir(database_path)
GalleryPresent(database_path) == PathExists(database_path) /\ IsDir(database_path)

\* enumerate's idx taken as it is, which numbers the faces from 0.
FaceNumberZeroBased(i) == i

\* enumerate's idx, made the record's face_number
FaceNumber(i) == i + 1

\* The record of one face whose lookup returned `found`.
MatchRecord(i, crop, found, threshold) ==
    LET has_best == Len(found) > 0 /\ Len(found[1]) > 0
        match_found == has_best /\ WithinThreshold(found[1][1].distance, threshold)
    IN [face_number |-> FaceNumber(i),
        match_found |-> match_found,
        match_info |->
            IF match_found
            THEN [identity |-> found[1][1].identity,
                  distance |-> found[1][1].distance,
                  person_name |-> SplitDotFirst(Basename(found[1][1].identity))]
            ELSE None,
        face_image_base64 |-> DataUri(crop)]

\* The record of one face when the gallery is not there.
NoDatabaseRecord(i, crop, database_path) ==
    [face_number |-> FaceNumber(i),
     match_found |-> FALSE,
     match_info |-> None,
     face_image_base64 |-> DataUri(crop),
     error |-> [text |-> "Database path does not exist", path |-> database_path]]

\* A handler that hands back the records appended before the exception.
SearchFailurePartial(e, records) ==
    [success |-> FALSE, error |-> e, faces_detected |-> Len(records),
     matches |-> records]

\* search_faces' outermost handler: what it returns for exception `e`.
\* `records` is the loop's list, in scope in the handler and not used.
SearchFailure(e, records) ==
    [success |-> FALSE, error |-> e, faces_detected |-> 0, matches |-> <<>>]

\* search_faces' return after the loop.
SearchSuccess(records) ==
    [success |-> TRUE, faces_detected |-> Len(records), matches |-> records]

\* The closest candidate of a lookup: the first row of least distance of
\* its first frame, or None.
ClosestCandidate(found) ==
    IF Len(found) = 0 \/ Len(found[1]) = 0 THEN None
    ELSE LET f == found[1]
             least == CHOOSE i \in 1..Len(f) :
                        /\ \A j \in 1..Len(f) : f[i].distance <= f[j].distance
                        /\ \A j \in 1..(i - 1) : f[j].distance > f[i].distance
         IN f[least]

\* search_faces up to the loop: the extraction and the early return.
search_faces_extract(out) ==
    /\ pc = "search_faces"
    /\ calls' = Append(calls, Call("extract_faces",
                    [img_path |-> tmp_path,
                     detector_backend |-> args.detector_backend,
                     enforce_detection |-> FALSE],
                    IF out.raises THEN "raise" ELSE "ok"))
    /\ IF out.raises
       THEN /\ result' = SearchFailure("extract_faces failed", <<>>)
            /\ pc' = "respond"
            /\ UNCHANGED <<faces, idx>>
       ELSE IF out.n = 0
       THEN /\ result' = [success |-> TRUE, faces_detected |-> 0, matches |-> <<>>]
            /\ pc' = "respond"
            /\ UNCHANGED <<faces, idx>>
       ELSE /\ faces' = Crops(out.n)
            /\ idx' = 0
            /\ pc' = "probe"
            /\ UNCHANGED result
    /\ UNCHANGED <<FACE_MATCHING_AVAILABLE, request, fs, fs0, tmp_path, response,
                   args, face_path, results, closest, analyzeVars>>

\* One pass of the loop, first half: the probe temp file and cv2.imwrite.
search_faces_probe(write_ok) ==
    /\ pc = "probe"
    /\ LET name == FreshName(fs) IN
       /\ fs' = fs \cup {name}
       /\ calls' = Append(calls, Call("imwrite", [path |-> name],
                                      IF write_ok THEN "ok" ELSE "raise"))
       /\ IF write_ok
          THEN /\ face_path' = name
               /\ pc' = "match"
               /\ UNCHANGED result
          ELSE \* raised inside the with block: the file stays, the
               \* outermost handler returns
               /\ result' = SearchFailure("imwrite failed", results)
               /\ pc' = "respond"
               /\ UNCHANGED face_path
    /\ UNCHANGED <<FACE_MATCHING_AVAILABLE, request, fs0, tmp_path, response, args,
                   faces, idx, results, closest, analyzeVars>>

\* One pass of the loop, second half: the lookup, the record, the finally
\* clause that unlinks the probe, and the return once the loop is over.
search_faces_match(out) ==
    /\ pc = "match"
    /\ fs' = fs \ {face_path}
    /\ IF GalleryPresent(args.database_path)
       THEN /\ calls' = Append(calls, Call("find",
                           [img_path |-> face_path,
                            db_path |-> args.database_path,
                            model_name |-> args.model_name,
                            detector_backend |-> args.detector_backend,
                            enforce_detection |-> FALSE],
                           IF out.raises THEN "raise" ELSE "ok"))
            /\ IF out.raises
               THEN /\ result' = SearchFailure("find failed", results)
                    /\ pc' = "respond"
                    /\ UNCHANGED <<results, closest, idx>>
               ELSE LET records == Append(results,
                                      MatchRecord(idx, faces[idx + 1], out.frames,
                                                  args.threshold))
                    IN /\ results' = records
                       /\ closest' = Append(closest, ClosestCandidate(out.frames))
                       /\ IF idx + 1 < Len(faces)
                          THEN /\ idx' = idx + 1
                               /\ pc' = "probe"
                               /\ UNCHANGED result
                          ELSE /\ result' = SearchSuccess(records)
                               /\ pc' = "respond"
                               /\ UNCHANGED idx
       ELSE LET records == Append(results,
                              NoDatabaseRecord(idx, faces[idx + 1], args.database_path))
            IN /\ results' = records
               /\ closest' = Append(closest, None)
               /\ calls' = calls
               /\ IF idx + 1 < Len(faces)
                  THEN /\ idx' = idx + 1
                       /\ pc' = "probe"
                       /\ UNCHANGED result
                  ELSE /\ result' = SearchSuccess(records)
                       /\ pc' = "respond"
                       /\ UNCHANGED idx
    /\ UNCHANGED <<FACE_MATCHING_AVAILABLE, request, fs0, tmp_path, response, args,
                   faces, face_path, analyzeVars>>

\* ---------------------------------------------------- image_detector.py

\* What main's argument may be: a prefix and the rest of the string.
Sources ==
    {[prefix |-> "https://", rest |-> "host/a.jpg"],
     [prefix |-> "", rest |-> "photo.jpg"]}

\* ImageDetector._is_url
IsUrl(source) == source.prefix \in {"http://", "https://"}

\* analyze_image's four checks in the order it runs them: the key each
\* result is stored under and the model check_* passes to _make_request.
Checks ==
    <<[key |-> "deepfake", model |-> "deepfake"],
      [key |-> "ai_generated", model |-> "genai"],
      [key |-> "quality", model |-> "quality"],
      [key |-> "scammer", model |-> "scam"]>>

\* How one scoring call may end: a JSON answer, one of the failures of
\* requests (a timeout, raise_for_status on a non-2xx status, no
\* connection), or open() failing on a local path.
Outcomes == {"ok", "Timeout", "HTTPError", "ConnectionError", "OSError"}

\* A handler for the HTTP and connection errors only, which lets a
\* timeout through.
RequestExceptionsNoTimeout == {"HTTPError", "ConnectionError"}

\* except requests.exceptions.RequestException
RequestExceptions == {"Timeout", "HTTPError", "ConnectionError"}

\* ImageDetector._make_request's return value when it returns.
MakeRequestResult(model, outcome) ==
    IF outcome \in RequestExceptions
    THEN [status |-> "error", error |-> outcome, model |-> model]
    ELSE [status |-> "success", checked |-> model]

\* python image_detector.py <image_path_or_url>
main(source) ==
    /\ pc = "idle"
    /\ Cardinality(fs) <= MaxLeaked
    /\ image_source' = source
    /\ fs0' = fs
    /\ pc' = "analyze"
    /\ UNCHANGED <<FACE_MATCHING_AVAILABLE, request, fs, tmp_path, response,
                   calls, matcherVars, result, step>>

\* One check of analyze_image: the scoring call and the store of its
\* result; after the last one, the return (to main, or to the route whose
\* tail unlinks the upload).
analyze_image_check(outcome) ==
    /\ pc = "analyze"
    /\ outcome = "OSError" => ~IsUrl(image_source)
    /\ LET check == Checks[step + 1]
           base == IF step = 0
                   THEN [image_source |-> image_source, status |-> "success"]
                   ELSE result
       IN /\ calls' = Append(calls, Call(IF IsUrl(image_source) THEN "requests.get"
                                          ELSE "requests.post",
                                         [models |-> check.model, timeout |-> 30],
                                         outcome))
          /\ IF outcome \notin RequestExceptions \cup {"ok"}
             THEN \* not caught by _make_request: analyze_image raises
                  IF request = None
                  THEN /\ pc' = "raised"
                       /\ UNCHANGED <<result, step, fs, response>>
                  ELSE /\ fs' = fs \ {tmp_path}
                       /\ Respond(500, [error |-> outcome])
                       /\ UNCHANGED <<result, step>>
             ELSE /\ result' = base @@ (check.key :> MakeRequestResult(check.model, outcome))
                  /\ step' = step + 1
                  /\ pc' = IF step + 1 < Len(Checks) THEN "analyze"
                           ELSE IF request = None THEN "done" ELSE "respond"
                  /\ UNCHANGED <<fs, response>>
    /\ UNCHANGED <<FACE_MATCHING_AVAILABLE, request, fs0, tmp_path, matcherVars,
                   image_source>>

\* ------------------------------------------------------------ app.py

\* The tail of a route: return jsonify(result), 200, and the finally clause
\* that unlinks the upload.
route_return ==
    /\ pc = "respond"
    /\ fs' = fs \ {tmp_path}
    /\ Respond(200, result)
    /\ UNCHANGED <<FACE_MATCHING_AVAILABLE, request, fs0, tmp_path, calls,
                   matcherVars, result, analyzeVars>>

\* The response is sent (or the run has ended); the locals are gone, the
\* temp directory stays as it is.
Finish ==
    /\ pc \in {"done", "raised"}
    /\ pc' = "idle"
    /\ request' = None
    /\ tmp_path' = 0
    /\ response' = NoResponse
    /\ calls' = <<>>
    /\ args' = None
    /\ faces' = <<>>
    /\ idx' = 0
    /\ face_path' = 0
    /\ results' = <<>>
    /\ closest' = <<>>
    /\ result' = None
    /\ image_source' = None
    /\ step' = 0
    /\ fs0' = fs
    /\ UNCHANGED <<FACE_MATCHING_AVAILABLE, fs>>

Next ==
    \/ \E r \in Requests, save_ok \in BOOLEAN : detect_tampering_endpoint(r, save_ok)
    \/ \E r \in Requests, save_ok \in BOOLEAN : detect_faces_route(r, save_ok)
    \/ \E r \in Requests, save_ok \in BOOLEAN : search_faces_route(r, save_ok)
    \/ \E r \in Requests, save_ok \in BOOLEAN : detect_and_search_faces(r, save_ok)
    \/ \E out \in ExtractOutcomes : FaceMatcher_detect_faces(out)
    \/ \E out \in ExtractOutcomes : search_faces_extract(out)
    \/ \E write_ok \in BOOLEAN : search_faces_probe(write_ok)
    \/ \E out \in FindOutcomes : search_faces_match(out)
    \/ \E source \in Sources : main(source)
    \/ \E outcome \in Outcomes : analyze_image_check(outcome)
    \/ route_return
    \/ Finish

Spec == Init /\ [][Next]_vars

\* ------------------------------------------------------------ claims

\* A request has been answered.
Answered == pc = "done" /\ request # None

\* The call of `fn` number i of this request or run raised.
Raised(i, fns) == calls[i].fn \in fns /\ calls[i].out = "raise"

\* The library calls search_faces and detect_faces make.
LibraryCalls == {"extract_faces", "imwrite", "find"}
ExternalCalls == LibraryCalls \cup {"requests.get", "requests.post"}

\* FaceMatcher.search_faces has returned to its route.
SearchReturned ==
    /\ pc \in {"respond", "done"}
    /\ request # None
    /\ request.ep \in SearchEndpoints
    /\ result # None

\* C1: once a request that created an upload temp file has been answered,
\* that file no longer exists, on every exit path (also when saving the
\* upload raises, also when the detector or matcher call raises).
C1_UploadRemovedOnEveryPath ==
    Answered =>
        \A i \in 1..Len(calls) :
            calls[i].fn = "file.save" => calls[i].arg.path \notin fs

\* The subsystem a route needs is initialized.
C10_Available(ep) ==
    IF ep = "/detect" THEN TAMPERING_DETECTION_AVAILABLE ELSE FACE_MATCHING_AVAILABLE

\* C2: an upload whose content type does not start with image/ gets status
\* 400 from /detect and /face/detect, and no external client or library is
\* called for it (stated for a route whose subsystem is initialized, which
\* otherwise answers 503 before it looks at the upload, and for an upload
\* that could be saved).
C2_NonImageRejected ==
    (/\ Answered
     /\ request.ep \in {"/detect", "/face/detect"}
     /\ C10_Available(request.ep)
     /\ request.has_image /\ request.filename # ""
     /\ \A i \in 1..Len(calls) : ~Raised(i, {"file.save"})
     /\ request.content_type \notin {"image/jpeg"})
    => /\ response.status = 400
       /\ \A i \in 1..Len(calls) : calls[i].fn \notin ExternalCalls

\* The person a gallery file is named after.
C3_Label(identity) ==
    CASE identity = <<"database", "/", "alice", ".", "jpg">> -> <<"alice">>
      [] identity = <<"database", "/", "bob", ".", "smith", ".", "png">> -> <<"bob">>

\* What C3 asks of the record `rec` of a face whose lookup had the closest
\* candidate `c` (None: no candidate), under threshold t.
C3_RecordAgrees(rec, c, t) ==
    IF c = None
    THEN ~rec.match_found /\ rec.match_info = None
    ELSE /\ rec.match_found <=> c.distance <= t
         /\ rec.match_found =>
                rec.match_info = [identity |-> c.identity,
                                  distance |-> c.distance,
                                  person_name |-> C3_Label(c.identity)]

\* C3: for every face looked up in the gallery, match_found holds iff the
\* closest candidate's distance is at most the threshold (equal counts);
\* with no candidate match_found is false and match_info null; a match
\* carries the closest candidate's identity, distance and person name.
C3_MatchIffWithinThreshold ==
    /\ \A i \in 1..Len(results) :
          "error" \notin DOMAIN results[i]
              => C3_RecordAgrees(results[i], closest[i], args.threshold)
    /\ (SearchReturned /\ result.success) =>
          \A i \in 1..Len(result.matches) :
              "error" \notin DOMAIN result.matches[i]
                  => C3_RecordAgrees(result.matches[i], closest[i], args.threshold)

\* C3's case: a returned match whose distance equals the threshold, and in
\* the same result a candidate beyond the threshold that is no match.
C3_Witness ==
    /\ SearchReturned /\ result.success
    /\ \E i \in 1..Len(result.matches) :
          /\ result.matches[i].match_found
          /\ closest[i].distance = args.threshold
          /\ result.matches[i].match_info.person_name = <<"bob">>
    /\ \E i \in 1..Len(result.matches) :
          /\ ~result.matches[i].match_found
          /\ closest[i] # None

\* C4: a successful search_faces over n extracted faces returns n records,
\* faces_detected = n, and record i has face_number i and the i-th crop.
C4_OneRecordPerFace ==
    (SearchReturned /\ result.success) =>
        /\ Len(result.matches) = Len(faces)
        /\ result.faces_detected = Len(faces)
        /\ \A i \in 1..Len(faces) :
              /\ result.matches[i].face_number = i
              /\ result.matches[i].face_image_base64.crop = faces[i]

\* C4's case: two faces, one matched and one not, both in the result.
C4_Witness ==
    /\ SearchReturned /\ result.success
    /\ Len(faces) = 2
    /\ result.matches[1].match_found
    /\ ~result.matches[2].match_found

\* No extraction, probe write or lookup of this request raised.
NoLibraryRaise == \A i \in 1..Len(calls) : ~Raised(i, LibraryCalls)

\* C5: with a gallery path that does not exist or is no directory, and the
\* library calls themselves succeeding, search_faces returns success with
\* one record per face, each unmatched, with null match_info and an error
\* naming the path; the gallery lookup is never called.
C5_MissingGalleryIsPerFaceError ==
    (args # None /\ "database_path" \in DOMAIN args
        /\ args.database_path \notin Directories)
    => /\ \A i \in 1..Len(calls) : calls[i].fn # "find"
       /\ (SearchReturned /\ NoLibraryRaise) =>
             /\ result.success
             /\ Len(result.matches) = Len(faces)
             /\ \A i \in 1..Len(result.matches) :
                   /\ ~result.matches[i].match_found
                   /\ result.matches[i].match_info = None
                   /\ "error" \in DOMAIN result.matches[i]
                   /\ result.matches[i].error.path = args.database_path

\* C5's case: the gallery path is a regular file, two faces were extracted
\* and the answer is out.
C5_Witness ==
    /\ Answered /\ SearchReturned
    /\ args.database_path = "notes.txt"
    /\ Len(faces) = 2
    /\ Len(result.matches) = 2

\* C6: when the extraction or matching library raises while a face route is
\* served, the response has status 500 and an error field.
C6_LibraryErrorIs500 ==
    (/\ Answered
     /\ request.ep \in {"/face/detect", "/face/search", "/face/detect-and-search"}
     /\ \E i \in 1..Len(calls) : Raised(i, {"extract_faces", "find"}))
    => /\ response.status = 500
       /\ "error" \in DOMAIN response.body

\* C7: when the library raises during extraction or at face k, search_faces
\* still returns (the route answers 200 with its result), and the result is
\* exactly success = false, an error message, faces_detected = 0 and
\* matches = [], whatever records faces 1..k-1 had produced.
C7_FailureDiscardsPartialResults ==
    (SearchReturned /\ ~NoLibraryRaise) =>
        /\ DOMAIN result = {"success", "error", "faces_detected", "matches"}
        /\ result.success = FALSE
        /\ result.error \in {"extract_faces failed", "imwrite failed", "find failed"}
        /\ result.faces_detected = 0
        /\ result.matches = <<>>
        /\ pc = "done" => response = [status |-> 200, body |-> result]

\* C7's case: the lookup of face 2 raised after face 1's record was made.
C7_Witness ==
    /\ Answered /\ SearchReturned
    /\ Len(results) = 1
    /\ Raised(Len(calls), {"find"})
    /\ result.matches = <<>>

\* A command-line run of analyze_image.
C8_Run == request = None /\ image_source # None

C8_Models == <<"deepfake", "genai", "quality", "scam">>
C8_Keys == <<"deepfake", "ai_generated", "quality", "scammer">>

\* C8: analyze_image makes its scoring calls in the order deepfake,
\* AI-generated, quality, scam, four when it returns; a transport failure
\* of a call neither raises nor ends the run, and is stored under that
\* model's key as an error result with the failure and the model name; the
\* aggregate's status is success.
C8_FourChecksFailuresEmbedded ==
    C8_Run =>
        /\ Len(calls) <= 4
        /\ \A i \in 1..Len(calls) : calls[i].arg.models = C8_Models[i]
        /\ pc = "done" => (Len(calls) = 4 /\ step = 4)
        /\ pc = "raised" => calls[Len(calls)].out \notin {"ok", "Timeout", "HTTPError", "ConnectionError"}
        /\ \A i \in 1..Len(calls) :
              calls[i].out \in {"Timeout", "HTTPError", "ConnectionError"} =>
                  /\ step >= i
                  /\ result[C8_Keys[i]] = [status |-> "error",
                                            error |-> calls[i].out,
                                            model |-> C8_Models[i]]
        /\ step > 0 => result.status = "success"

\* C8's case: a run that returned although its first and third calls failed.
C8_Witness ==
    /\ C8_Run /\ pc = "done"
    /\ calls[1].out = "Timeout"
    /\ calls[3].out = "HTTPError"
    /\ calls[4].out = "ok"

\* C9: POST /detect with a well-formed image upload runs the forensics
\* client on the saved temp file and answers 200 with the aggregate.
C9_DetectAnswersAggregate ==
    (/\ Answered
     /\ request.ep = "/detect"
     /\ request.has_image
     /\ request.filename # ""
     /\ request.content_type = "image/jpeg")
    => /\ response.status = 200
       /\ {"deepfake", "ai_generated", "quality", "scammer"} \subseteq DOMAIN response.body

\* C10: on each POST route, an uninitialized subsystem gets 503; otherwise a
\* missing image field or an empty filename gets 400; in these cases the
\* body has an error string, no temp file is created and nothing external
\* is called.
C10_UnavailableAndBadUpload ==
    Answered =>
        /\ ~C10_Available(request.ep) =>
              /\ response.status = 503
              /\ "error" \in DOMAIN response.body
              /\ fs = fs0 /\ tmp_path = 0 /\ calls = <<>>
        /\ (C10_Available(request.ep) /\ (~request.has_image \/ request.filename = "")) =>
              /\ response.status = 400
              /\ "error" \in DOMAIN response.body
              /\ fs = fs0 /\ tmp_path = 0 /\ calls = <<>>

\* C10's case: an available face route answered an empty filename.
C10_Witness ==
    /\ Answered
    /\ request.ep = "/face/search"
    /\ FACE_MATCHING_AVAILABLE
    /\ request.has_image /\ request.filename = ""
    /\ response.status = 400

\* FaceMatcher.detect_faces has returned to its route.
DetectReturned ==
    /\ pc \in {"respond", "done"}
    /\ request # None
    /\ request.ep = "/face/detect"
    /\ result # None

\* C11: when the library extracts no face from an image, detect_faces
\* returns success = true, faces_detected = 0 and faces = [], and
\* /face/detect answers 200 with it; every extraction, of detect_faces and
\* of search_faces, is called with enforce_detection = False.
C11_ZeroFacesIsSuccess ==
    /\ \A i \in 1..Len(calls) :
          calls[i].fn = "extract_faces" => calls[i].arg.enforce_detection = FALSE
    /\ (DetectReturned /\ calls[Len(calls)].out = "ok" /\ Len(faces) = 0) =>
          /\ result = [success |-> TRUE, faces_detected |-> 0, faces |-> <<>>]
          /\ pc = "done" => response = [status |-> 200, body |-> result]

\* C11's case: /face/detect has answered for an image whose extraction
\* succeeded with no face.
C11_Witness ==
    /\ Answered /\ DetectReturned
    /\ calls[Len(calls)] = Call("extract_faces",
                                [img_path |-> tmp_path,
                                 detector_backend |-> "opencv",
                                 enforce_detection |-> FALSE], "ok")
    /\ Len(faces) = 0
    /\ response.status = 200

\* The record C12 expects for face i, from the form's gallery path and
\* threshold and the closest candidate the library returned for the face.
C12_Record(i, db, t) ==
    IF db \notin Directories
    THEN [face_number |-> i, match_found |-> FALSE, match_info |-> None,
          face_image_base64 |-> [mime |-> "data:image/jpeg;base64", crop |-> faces[i]],
          error |-> [text |-> "Database path does not exist", path |-> db]]
    ELSE LET c == closest[i]
             hit == c # None /\ c.distance <= t
         IN [face_number |-> i, match_found |-> hit,
             match_info |-> IF hit
                            THEN [identity |-> c.identity, distance |-> c.distance,
                                  person_name |-> C3_Label(c.identity)]
                            ELSE None,
             face_image_base64 |-> [mime |-> "data:image/jpeg;base64", crop |-> faces[i]]]

\* What search_faces returns, as a function of its arguments (the gallery
\* path and the threshold) and of what the library did: which call raised,
\* the faces extracted and each face's closest candidate.
C12_Result(db, t) ==
    IF \E i \in 1..Len(calls) : Raised(i, LibraryCalls)
    THEN LET k == CHOOSE i \in 1..Len(calls) : Raised(i, LibraryCalls)
         IN [success |-> FALSE,
             error |-> CASE calls[k].fn = "extract_faces" -> "extract_faces failed"
                         [] calls[k].fn = "imwrite" -> "imwrite failed"
                         [] calls[k].fn = "find" -> "find failed",
             faces_detected |-> 0, matches |-> <<>>]
    ELSE [success |-> TRUE, faces_detected |-> Len(faces),
          matches |-> [i \in 1..Len(faces) |-> C12_Record(i, db, t)]]

\* What /face/search answers, as a function of the request's fields other
\* than the route, the availability flag and what file.save and the
\* library did.
C12_Answer ==
    LET db == IF request.database_path = NoField THEN "database/"
              ELSE request.database_path
        t == IF request.threshold = NoField THEN 2 ELSE 1
    IN IF ~FACE_MATCHING_AVAILABLE
       THEN [status |-> 503, body |-> [error |-> "Face matching not available"]]
       ELSE IF ~request.has_image
       THEN [status |-> 400, body |-> [error |-> "No image file provided"]]
       ELSE IF request.filename = ""
       THEN [status |-> 400, body |-> [error |-> "No file selected"]]
       ELSE IF request.threshold \notin {NoField, "0.25"}
       THEN [status |-> 500, body |-> [error |-> "could not convert string to float"]]
       ELSE IF Raised(1, {"file.save"})
       THEN [status |-> 500, body |-> [error |-> "save failed"]]
       ELSE [status |-> 200, body |-> C12_Result(db, t)]

\* C12: detect_and_search returns what search_faces returns for the same
\* arguments and library behaviour, and /face/detect-and-search answers as
\* /face/search does: on either route the answer is one and the same
\* function of the request's fields, the availability flag and the
\* library's behaviour, in which the route does not occur.
C12_SameAnswerOnBothRoutes ==
    /\ (Answered /\ request.ep \in SearchEndpoints) => response = C12_Answer
    /\ (SearchReturned /\ pc = "respond") => result = C12_Answer.body

\* C12's case: /face/detect-and-search, sent a threshold of 0.25, has
\* answered with a face whose closest candidate lies at 0.5, between that
\* threshold and the default, and is no match.
C12_Witness ==
    /\ Answered /\ SearchReturned
    /\ request.ep = "/face/detect-and-search"
    /\ request.threshold = "0.25"
    /\ result.success
    /\ \E i \in 1..Len(result.matches) :
          /\ closest[i] # None
          /\ closest[i].distance = 2
          /\ ~result.matches[i].match_found

\* The probe temp files search_faces created for this request that exist.
ProbeFiles ==
    {calls[i].arg.path : i \in {j \in 1..Len(calls) : calls[j].fn = "imwrite"}} \cap fs

\* C13: every probe temp file search_faces creates is gone when it returns,
\* whether the lookup succeeded, found no gallery or raised, and also when
\* writing the crop into the probe file raised; at any moment at most one
\* probe file exists, that of the face being processed.
C13_ProbeFilesRemoved ==
    /\ SearchReturned => ProbeFiles = {}
    /\ Cardinality(ProbeFiles) <= 1
    /\ pc = "match" => ProbeFiles = {face_path}

====
